---------------------------- MODULE Spec2Model ----------------------------
(***************************************************************************)
(* SoundJS playback sessions.                                              *)
(*                                                                         *)
(* Two variants of the session class live in the repository and both       *)
(* register themselves as createjs.AbstractSoundInstance:                  *)
(*   - src/unnamed/part_000 (fields _position, _paused, _muted), modelled  *)
(*     by the operators that carry the source's method names;              *)
(*   - src/src/soundjs/DefaultSoundInstance.js (fields _offset, _pause,    *)
(*     _mute), modelled by the operators prefixed Default_.                *)
(* A session is a record t ("this" plus the part of the host it touches:   *)
(* the pending timers, the facade's registration, and the log of what the  *)
(* running operation dispatched and called).  Every method is an operator  *)
(* from such a record to the record it leaves behind.                      *)
(*                                                                         *)
(* SoundJS loaders.  src/unnamed/part_001 holds FlashAudioLoader and       *)
(* WebAudioLoader; their methods are operators in the same way and have a  *)
(* specification of their own, LoaderSpec.                                 *)
(***************************************************************************)
EXTENDS Integers, Sequences, FiniteSets

(***************************************************************************)
(* JavaScript values.  Numbers are integers; the two non-numbers the code  *)
(* can meet are encoded outside every range the model uses.  `undefined`   *)
(* stands for an omitted argument (the code tests `x != null`, which null  *)
(* and undefined both fail).                                               *)
(***************************************************************************)
undefined == 9001
NaN == 9002

IsNum(v) == v # undefined /\ v # NaN

\* ToNumber(undefined) is NaN; NaN stays NaN.
ToNumber(v) == IF v = undefined THEN NaN ELSE v

\* Math.min / Math.max: NaN if either argument converts to NaN.
Math_min(a, b) ==
    IF ToNumber(a) = NaN \/ ToNumber(b) = NaN THEN NaN
    ELSE IF a < b THEN a ELSE b

Math_max(a, b) ==
    IF ToNumber(a) = NaN \/ ToNumber(b) = NaN THEN NaN
    ELSE IF a > b THEN a ELSE b

\* `value || 0`: the falsy numbers (0, NaN) and undefined give 0.
OrZero(v) == IF v = undefined \/ v = NaN \/ v = 0 THEN 0 ELSE v

\* `a > b` and `a < b`: false as soon as one side is NaN.
JS_gt(a, b) == ToNumber(a) # NaN /\ ToNumber(b) # NaN /\ a > b
JS_lt(a, b) == ToNumber(a) # NaN /\ ToNumber(b) # NaN /\ a < b

\* `a * k` for a number k.
JS_times(a, k) == IF ToNumber(a) = NaN THEN NaN ELSE a * k

\* `x != 0` (loose): undefined and NaN differ from 0.
JS_ne0(v) == v # 0

\* `x--`
JS_dec(v) == IF ToNumber(v) = NaN THEN NaN ELSE v - 1

\* `x != null`
NotNull(v) == v # undefined

(***************************************************************************)
(* createjs.Sound play-state constants, as the session reads them.         *)
(***************************************************************************)
PLAY_SUCCEEDED == "playSucceeded"
PLAY_INTERRUPTED == "playInterrupted"
PLAY_FINISHED == "playFinished"
PLAY_FAILED == "playFailed"
\* this.playState = null after construction
PLAY_NULL == "null"

PlayStates == {PLAY_NULL, PLAY_SUCCEEDED, PLAY_INTERRUPTED, PLAY_FINISHED, PLAY_FAILED}

(***************************************************************************)
(* Bounds of the model.                                                    *)
(***************************************************************************)
\* timer handles the host can hand out at once
MaxTimers == 2
\* largest finite loop count given as an input
MaxLoop == 2
\* how far below zero an infinite loop's counter is followed
MaxInfinite == 3

TimerIds == 1..MaxTimers
\* delayTimeoutId = null
NoTimer == 0

\* Inputs.  Durations are milliseconds; with a duration of 1000 an offset of
\* 1 is in range for part_000 (1*1000 > 1000 is false) and 2 is beyond it.
Durations == {0, 1000}
Offsets == {-1, 0, 2}
Positions == {0, 2000}
Loops == -1..MaxLoop
Volumes == {2}
Pans == {0}
Delays == {0, 1}
\* context.currentTime - _playbackStartTime, in thousandths of a second; NaN
\* while no engine has set _playbackStartTime.
Elapsed == {NaN, 0}

(***************************************************************************)
(* The log of the running operation.                                       *)
(***************************************************************************)
Call(t, name) == [t EXCEPT !.calls = Append(@, name)]

Count(seq, x) == Cardinality({i \in DOMAIN seq : seq[i] = x})

\* _sendEvent(type): dispatchEvent(new Event(type))
\* seen keeps, for each event, the playState a listener reads when it is called
_sendEvent(t, type) ==
    [t EXCEPT !.events = Append(@, type), !.seen = Append(@, t.playState)]

(***************************************************************************)
(* Host timers.  pending is the set of timers set and neither fired nor    *)
(* cleared; each carries the arguments its callback will pass on.          *)
(***************************************************************************)
\* The log tells a call that cancels a pending timer from one that finds none.
clearTimeout(t, id) ==
    LET hit == \E x \in t.pending : x.id = id
    IN  Call([t EXCEPT !.pending = {x \in @ : x.id # id}],
             IF hit THEN "clearTimeout(pending)" ELSE "clearTimeout")

\* A handle is free again once its timer has fired or been cleared.
FreeTimerIds(t) == {i \in TimerIds : \A x \in t.pending : x.id # i}

\* setTimeout by the facade: the smallest handle not in use
NewTimerId(t) == CHOOSE i \in FreeTimerIds(t) : \A j \in FreeTimerIds(t) : i <= j

(***************************************************************************)
(* Back-end hooks of part_000 (lines 853-935): empty bodies, "plugin       *)
(* specific code"; the model records that they were invoked.               *)
(***************************************************************************)
_updateVolume(t) == Call(t, "_updateVolume")
_updatePan(t) == Call(t, "_updatePan")
_updateDuration(t) == Call(t, "_updateDuration")
_calculateCurrentPosition(t) == Call(t, "_calculateCurrentPosition")
_updatePosition(t) == Call(t, "_updatePosition")
_removeLooping(t) == Call(t, "_removeLooping")
_addLooping(t) == Call(t, "_addLooping")
_updatePaused(t, value) == Call(t, "_updatePaused")
_handleStop(t) == Call(t, "_handleStop")

\* `return x;` of a public method
Return(t, x) == [t EXCEPT !.ret = x]

\* A boolean as the JavaScript value a caller passes or compares with.
JSBool(b) == IF b THEN "true" ELSE "false"

\* What a caller can hand a boolean setter: true and false, and values that
\* are neither (undefined, the number 1, a string).
Booleans == {"true", "false"}
NotBooleans == {"undefined", "1", "mute"}

\* `value == null`
IsNullish(value) == value \in {"undefined", "null"}

\* the truth value a condition takes a stored value for
Truthy(value) == value \in {"true", "1", "mute"}

(***************************************************************************)
(* The facade, createjs.Sound (not part of the sources).                   *)
(***************************************************************************)
\* Sound._playFinished(instance): the facade drops the session.
_playFinished(t) == Call([t EXCEPT !.registered = FALSE], "_playFinished")

(***************************************************************************)
(* src/unnamed/part_000                                                    *)
(***************************************************************************)
\* the `volume` property setter; without defineProperty support the
\* assignment this.volume = v only creates a plain property.
set_volume(t, value) ==
    IF ~t.definePropertySupported THEN t
    ELSE LET t1 == [t EXCEPT !._volume = Math_max(0, Math_min(1, value))]
         \* `if (this._mute) return;` reads a field this class never sets
         IN  _updateVolume(t1)

\* the `pan` property setter
set_pan(t, value) ==
    IF ~t.definePropertySupported THEN t
    ELSE _updatePan([t EXCEPT !._pan = Math_max(-1, Math_min(1, value))])

\* _cleanUp without its clearTimeout(this.delayTimeoutId)
_cleanUp_KeepsTimer(t) == _playFinished(t)

_cleanUp(t) == _playFinished(clearTimeout(t, t.delayTimeoutId))

setPaused(t, value) ==
    IF value # "true" \/ value # "false" \/ JSBool(t._paused) = value
    THEN Return(t, "undefined")
    ELSE IF value = "true" /\ t.playState # PLAY_SUCCEEDED
    THEN Return(t, "undefined")
    ELSE LET t1 == _updatePaused(t, value)
             t2 == [t1 EXCEPT !._paused = (value = "true")]
         IN  Return(clearTimeout(t2, t2.delayTimeoutId), "this")

pause(t) ==
    IF t._paused \/ t.playState # PLAY_SUCCEEDED THEN Return(t, "false")
    ELSE Return(setPaused(t, "true"), "true")

resume(t) ==
    IF ~t._paused THEN Return(t, "false")
    ELSE Return(setPaused(t, "false"), "true")

getPaused(t) == t._paused

\* stop without its `this._position = 0`
stop_KeepsPosition(t) ==
    LET t1 == [t EXCEPT !._paused = FALSE]
        t2 == _cleanUp(_handleStop(t1))
    IN  Return([t2 EXCEPT !.playState = PLAY_FINISHED], "this")

\* stop reporting the end of the sound as a natural completion does
stop_AsCompletion(t) ==
    LET t1 == [t EXCEPT !._position = 0, !._paused = FALSE]
        t2 == _cleanUp(_handleStop(t1))
    IN  Return(_sendEvent([t2 EXCEPT !.playState = PLAY_FINISHED], "complete"), "this")

stop(t) ==
    LET t1 == [t EXCEPT !._position = 0, !._paused = FALSE]
        t2 == _cleanUp(_handleStop(t1))
    IN  Return([t2 EXCEPT !.playState = PLAY_FINISHED], "this")

\* setVolume leaving the stored volume alone while muted
setVolume_IgnoredWhileMuted(t, value) ==
    IF t._muted THEN Return(t, "this")
    ELSE Return(_updateVolume([t EXCEPT !._volume = Math_max(0, Math_min(1, value))]), "this")


\* setVolume calling _updateVolume whether the session is muted or not
setVolume_AlwaysApplies(t, value) ==
    Return(_updateVolume([t EXCEPT !._volume = Math_max(0, Math_min(1, value))]), "this")

setVolume(t, value) ==
    LET t1 == [t EXCEPT !._volume = Math_max(0, Math_min(1, value))]
    IN  Return(IF ~t1._muted THEN _updateVolume(t1) ELSE t1, "this")

\* setMuted taking every value but null and undefined, as setMute does
setMuted_LikeSetMute(t, value) ==
    IF IsNullish(value) THEN Return(t, "undefined")
    ELSE Return(_updateVolume([t EXCEPT !._muted = Truthy(value)]), "this")

setMuted(t, value) ==
    IF value # "true" \/ value # "false" THEN Return(t, "undefined")
    ELSE Return(_updateVolume([t EXCEPT !._muted = (value = "true")]), "this")

\* the older setMute: stores whatever it is given, unless null or undefined
setMute(t, value) ==
    IF IsNullish(value) THEN Return(t, "false")
    ELSE Return(_updateVolume([t EXCEPT !._muted = Truthy(value)]), "true")

\* the `muted` property setter
set_muted(t, value) ==
    IF ~t.definePropertySupported THEN t
    ELSE IF value # "true" \/ value # "false" THEN t
    ELSE _updateVolume([t EXCEPT !._muted = (value = "true")])

\* the `paused` property setter
set_paused(t, value) ==
    IF ~t.definePropertySupported THEN t
    ELSE IF value # "true" \/ value # "false" \/ JSBool(t._paused) = value THEN t
    ELSE IF value = "true" /\ t.playState # PLAY_SUCCEEDED THEN t
    ELSE LET t1 == _updatePaused(t, value)
             t2 == [t1 EXCEPT !._paused = (value = "true")]
         IN  clearTimeout(t2, t2.delayTimeoutId)

\* the `loop` property setter
set_loop(t, value) ==
    IF ~t.definePropertySupported THEN t
    ELSE LET t1 == IF JS_ne0(t._loop) /\ value = 0 THEN _removeLooping(t) ELSE t
             t2 == IF t1._loop = 0 /\ JS_ne0(value) THEN _addLooping(t1) ELSE t1
         IN  [t2 EXCEPT !._loop = value]

getVolume(t) == t._volume

getMuted(t) == t._muted

getPan(t) == t._pan

getLoop(t) == t._loop

\* setPan clamping to the range of a volume
setPan_ClampsLikeVolume(t, value) ==
    Return(_updatePan([t EXCEPT !._pan = Math_max(0, Math_min(1, value))]), "this")

setPan(t, value) ==
    Return(_updatePan([t EXCEPT !._pan = Math_max(-1, Math_min(1, value))]), "this")

\* getPosition returns a number: the pair of the session it leaves and the value
getPosition(t) ==
    LET t1 == IF ~t._paused /\ t.playState = PLAY_SUCCEEDED
              THEN _calculateCurrentPosition(t) ELSE t
    IN  [this |-> t1, value |-> t1._position]


\* the getter of the `position` property
get_position(t) ==
    LET t1 == IF ~t._paused /\ t.playState = PLAY_SUCCEEDED
              THEN _calculateCurrentPosition(t) ELSE t
    IN  [this |-> t1, value |-> t1._position]

setPosition(t, value) ==
    Return(_updatePosition([t EXCEPT !._position = OrZero(value)]), "this")

setDuration(t, value) ==
    Return(_updateDuration([t EXCEPT !._duration = OrZero(value)]), "this")

\* setLoop calling the add-looping hook on every write of a nonzero count
setLoop_AlwaysNotifies(t, value) ==
    LET t1 == IF JS_ne0(t._loop) /\ value = 0 THEN _removeLooping(t) ELSE t
        t2 == IF JS_ne0(value) THEN _addLooping(t1) ELSE t1
    IN  Return([t2 EXCEPT !._loop = value], "undefined")

setLoop(t, value) ==
    LET t1 == IF JS_ne0(t._loop) /\ value = 0 THEN _removeLooping(t) ELSE t
        t2 == IF t1._loop = 0 /\ JS_ne0(value) THEN _addLooping(t1) ELSE t1
    IN  Return([t2 EXCEPT !._loop = value], "undefined")

\* _playFailed without its _cleanUp: the facade is not told
_playFailed_KeepsSession(t) ==
    _sendEvent([t EXCEPT !.playState = PLAY_FAILED], "failed")

_playFailed(t) ==
    _sendEvent([_cleanUp(t) EXCEPT !.playState = PLAY_FAILED], "failed")

\* _interrupt reporting the preemption as a failure
_interrupt_AsFailure(t) == _playFailed(t)

\* _interrupt dispatching "interrupted" before it sets playState
_interrupt_EventFirst(t) ==
    LET t1 == _sendEvent(_cleanUp(t), "interrupted")
    IN  [t1 EXCEPT !.playState = PLAY_INTERRUPTED, !._paused = FALSE]

_interrupt(t) ==
    LET t1 == [_cleanUp(t) EXCEPT !.playState = PLAY_INTERRUPTED, !._paused = FALSE]
    IN  _sendEvent(t1, "interrupted")

\* _handleSoundReady without its `else if (this._position < 0)`
_handleSoundReady_KeepsNegative(t) ==
    IF JS_gt(JS_times(t._position, 1000), t._duration) THEN _playFailed(t)
    ELSE [t EXCEPT !.playState = PLAY_SUCCEEDED, !._paused = FALSE]

_handleSoundReady(t) ==
    IF JS_gt(JS_times(t._position, 1000), t._duration) THEN _playFailed(t)
    ELSE LET t1 == IF JS_lt(t._position, 0) THEN [t EXCEPT !._position = 0] ELSE t
         IN  [t1 EXCEPT !.playState = PLAY_SUCCEEDED, !._paused = FALSE]

_beginPlaying(t, offset, loop, volume, pan) ==
    LET t1 == [t EXCEPT !._position = offset, !._loop = loop]
        t2 == set_pan(set_volume(t1, volume), pan)
    IN  IF t2.isPreloadComplete
        THEN _sendEvent(_handleSoundReady(t2), "succeeded")
        ELSE _playFailed(t2)

\* _handleSoundComplete taking the loop count for the number of plays left:
\* a count of 1 completes
_handleSoundComplete_CountsPlays(t) ==
    LET t1 == [t EXCEPT !._position = 0]
    IN  IF JS_ne0(t1._loop) /\ t1._loop # 1
        THEN _sendEvent([t1 EXCEPT !._loop = JS_dec(@)], "loop")
        ELSE _sendEvent([_cleanUp(t1) EXCEPT !.playState = PLAY_FINISHED, !._loop = 0],
                        "complete")

\* _handleSoundComplete testing `this._loop > 0`: a negative count completes
_handleSoundComplete_NegativeEnds(t) ==
    LET t1 == [t EXCEPT !._position = 0]
    IN  IF JS_gt(t1._loop, 0)
        THEN _sendEvent([t1 EXCEPT !._loop = JS_dec(@)], "loop")
        ELSE _sendEvent([_cleanUp(t1) EXCEPT !.playState = PLAY_FINISHED], "complete")


\* _handleSoundComplete releasing the session before it looks at the loop count
_handleSoundComplete_CleansUpFirst(t) ==
    LET t1 == _cleanUp([t EXCEPT !._position = 0])
    IN  IF JS_ne0(t1._loop)
        THEN _sendEvent([t1 EXCEPT !._loop = JS_dec(@)], "loop")
        ELSE _sendEvent([t1 EXCEPT !.playState = PLAY_FINISHED], "complete")

_handleSoundComplete(t) ==
    LET t1 == [t EXCEPT !._position = 0]
    IN  IF JS_ne0(t1._loop)
        THEN _sendEvent([t1 EXCEPT !._loop = JS_dec(@)], "loop")
        ELSE _sendEvent([_cleanUp(t1) EXCEPT !.playState = PLAY_FINISHED], "complete")


(***************************************************************************)
(* src/src/soundjs/DefaultSoundInstance.js.  The record's _paused and      *)
(* _muted fields hold this class's _pause and _mute.  Its _offset is in    *)
(* seconds and takes fractional values (setPosition multiplies by 0.001),  *)
(* so the record holds _offset in thousandths of a second: the source's    *)
(* `_offset * 1000` is the field itself, `_offset = offset` stores         *)
(* offset * 1000 and `_offset = value * 0.001` stores value.               *)
(***************************************************************************)
Default_set_volume(t, value) ==
    IF ~t.definePropertySupported THEN t
    ELSE LET t1 == [t EXCEPT !._volume = Math_max(0, Math_min(1, value))]
         IN  IF t1._muted THEN t1 ELSE _updateVolume(t1)

Default_set_pan(t, value) ==
    IF ~t.definePropertySupported THEN t
    ELSE _updatePan([t EXCEPT !._pan = Math_max(-1, Math_min(1, value))])

\* the `loop` property setter
Default_set_loop(t, value) ==
    IF ~t.definePropertySupported THEN t
    ELSE LET t1 == IF JS_ne0(t._loop) /\ value = 0 THEN _removeLooping(t) ELSE t
             t2 == IF t1._loop = 0 /\ JS_ne0(value) THEN _addLooping(t1) ELSE t1
         IN  [t2 EXCEPT !._loop = value]

\* clearTimeout(this._soundCompleteTimeout) clears a handle this class never sets
Default__cleanUp(t) == _playFinished(clearTimeout(t, t.delayTimeoutId))

Default__playFailed(t) ==
    _sendEvent([Default__cleanUp(t) EXCEPT !.playState = PLAY_FAILED], "failed")

Default__interrupt(t) ==
    LET t1 == [Default__cleanUp(t) EXCEPT !.playState = PLAY_INTERRUPTED, !._paused = FALSE]
    IN  _sendEvent(t1, "interrupted")

Default__handleSoundReady(t) ==
    IF JS_gt(t._offset, t._duration) THEN Default__playFailed(t)
    ELSE LET t1 == IF JS_lt(t._offset, 0) THEN [t EXCEPT !._offset = 0] ELSE t
         IN  [t1 EXCEPT !.playState = PLAY_SUCCEEDED, !._paused = FALSE]

Default__beginPlaying(t, offset, loop, volume, pan) ==
    LET t1 == [t EXCEPT !._offset = JS_times(offset, 1000), !._loop = loop]
        t2 == Default_set_pan(Default_set_volume(t1, volume), pan)
    IN  IF t2.isPreloadComplete
        THEN Return(_sendEvent(Default__handleSoundReady(t2), "succeeded"), "1")
        ELSE Return(Default__playFailed(t2), "undefined")

Default__handleSoundComplete(t) ==
    LET t1 == [t EXCEPT !._offset = 0]
    IN  IF JS_ne0(t1._loop)
        THEN _sendEvent([t1 EXCEPT !._loop = JS_dec(@)], "loop")
        ELSE _sendEvent([Default__cleanUp(t1) EXCEPT !.playState = PLAY_FINISHED], "complete")

\* With defineProperty support the constructor defines an own accessor
\* property named "pause" (lines 283-294), which hides the prototype's
\* method: instance.pause() then raises a TypeError and nothing runs.
\* elapsed is context.currentTime - _playbackStartTime.
Default_pause(t, elapsed) ==
    IF t.definePropertySupported THEN Return(t, "TypeError")
    ELSE IF t._paused \/ t.playState # PLAY_SUCCEEDED THEN Return(t, "false")
    ELSE LET t1 == [t EXCEPT !._paused = TRUE, !._offset = elapsed]
         IN  Return(clearTimeout(t1, t1.delayTimeoutId), "true")

Default_resume(t) ==
    IF ~t._paused THEN Return(t, "false")
    ELSE Return(Default__handleSoundReady(t), "true")

Default_stop(t) ==
    LET t1 == Default__cleanUp([t EXCEPT !._paused = FALSE])
    IN  Return([t1 EXCEPT !.playState = PLAY_FINISHED, !._offset = 0], "true")

Default_setVolume(t, value) ==
    LET t1 == [t EXCEPT !._volume = Math_max(0, Math_min(1, value))]
    IN  Return(IF ~t1._muted THEN _updateVolume(t1) ELSE t1, "this")

Default_setMute(t, value) ==
    IF IsNullish(value) THEN Return(t, "false")
    ELSE Return(_updateVolume([t EXCEPT !._muted = Truthy(value)]), "true")

\* the `mute` property setter
Default_set_mute(t, value) ==
    IF ~t.definePropertySupported THEN t
    ELSE IF value # "true" \/ value # "false" THEN t
    ELSE _updateVolume([t EXCEPT !._muted = (value = "true")])

Default_setPan(t, value) ==
    Return(_updatePan([t EXCEPT !._pan = Math_max(-1, Math_min(1, value))]), "this")

Default_getPosition(t) == [this |-> t, value |-> 0]

\* this.sourceNode is never set by this class, so the branch that tears the
\* audio node down is skipped.
Default_setPosition(t, value) ==
    LET t1 == [t EXCEPT !._offset = ToNumber(value)]
        t2 == IF ~t1._paused /\ t1.playState = PLAY_SUCCEEDED
              THEN Default__handleSoundReady(t1) ELSE t1
    IN  Return(t2, "true")

Default_setDuration(t, value) ==
    Return(_updateDuration([t EXCEPT !._duration = OrZero(value)]), "this")

Default_setLoop(t, value) ==
    LET t1 == IF JS_ne0(t._loop) /\ value = 0 THEN _removeLooping(t) ELSE t
        t2 == IF t1._loop = 0 /\ JS_ne0(value) THEN _addLooping(t1) ELSE t1
    IN  Return([t2 EXCEPT !._loop = value], "undefined")

(***************************************************************************)
(* The facade's arbitration entry point, createjs.Sound._playInstance, and *)
(* the delayed start it schedules.  An options object given as the first   *)
(* argument replaces the positional arguments; omitted options take the    *)
(* defaults the play documentation states (delay 0, offset 0, loop 0,      *)
(* volume 1, pan 0).  With no delay the attempt begins at once; otherwise  *)
(* a timer is set whose handle is stored in delayTimeoutId, and when it    *)
(* fires the facade begins the attempt with the arguments it holds.        *)
(***************************************************************************)
OrDefault(v, d) == IF NotNull(v) THEN v ELSE d

BeginPlaying(t, offset, loop, volume, pan) ==
    IF t.impl = "part_000" THEN _beginPlaying(t, offset, loop, volume, pan)
    ELSE Default__beginPlaying(t, offset, loop, volume, pan)

_playInstance(t, interrupt, delay, offset, loop, volume, pan) ==
    LET d == OrDefault(IF interrupt.isObject THEN interrupt.delay ELSE delay, 0)
        o == OrDefault(IF interrupt.isObject THEN interrupt.offset ELSE offset, 0)
        l == OrDefault(IF interrupt.isObject THEN interrupt.loop ELSE loop, 0)
        v == OrDefault(IF interrupt.isObject THEN interrupt.volume ELSE volume, 1)
        p == OrDefault(IF interrupt.isObject THEN interrupt.pan ELSE pan, 0)
        t1 == Call([t EXCEPT !.registered = TRUE], "_playInstance")
    IN  IF d = 0 THEN BeginPlaying(t1, o, l, v, p)
        ELSE LET id == NewTimerId(t1)
             IN  [t1 EXCEPT !.delayTimeoutId = id,
                            !.pending = @ \cup {[id |-> id, offset |-> o, loop |-> l,
                                                 volume |-> v, pan |-> p]}]

\* play without the _cleanUp that precedes a new arbitration
play_KeepsTimer(t, interrupt, delay, offset, loop, volume, pan) ==
    IF t.playState = PLAY_SUCCEEDED
    THEN LET o == IF interrupt.isObject THEN interrupt.offset ELSE offset
             l == IF interrupt.isObject THEN interrupt.loop ELSE loop
             v == IF interrupt.isObject THEN interrupt.volume ELSE volume
             p == IF interrupt.isObject THEN interrupt.pan ELSE pan
             t1 == IF NotNull(o) THEN setPosition(t, o) ELSE t
             t2 == IF NotNull(l) THEN setLoop(t1, l) ELSE t1
             t3 == IF NotNull(v) THEN setVolume(t2, v) ELSE t2
             t4 == IF NotNull(p) THEN setPan(t3, p) ELSE t3
             t5 == IF t4._paused THEN resume(t4) ELSE t4
         IN  Return(t5, "undefined")
    ELSE Return(_playInstance(t, interrupt, delay, offset, loop, volume, pan), "this")


\* play handing Sound._playInstance no loop count
play_DropsLoop(t, interrupt, delay, offset, loop, volume, pan) ==
    IF t.playState = PLAY_SUCCEEDED
    THEN LET o == IF interrupt.isObject THEN interrupt.offset ELSE offset
             l == IF interrupt.isObject THEN interrupt.loop ELSE loop
             v == IF interrupt.isObject THEN interrupt.volume ELSE volume
             p == IF interrupt.isObject THEN interrupt.pan ELSE pan
             t1 == IF NotNull(o) THEN setPosition(t, o) ELSE t
             t2 == IF NotNull(l) THEN setLoop(t1, l) ELSE t1
             t3 == IF NotNull(v) THEN setVolume(t2, v) ELSE t2
             t4 == IF NotNull(p) THEN setPan(t3, p) ELSE t3
             t5 == IF t4._paused THEN resume(t4) ELSE t4
         IN  Return(t5, "undefined")
    ELSE Return(_playInstance(_cleanUp(t), interrupt, delay, offset, undefined, volume, pan),
                "this")

\* part_000
play(t, interrupt, delay, offset, loop, volume, pan) ==
    IF t.playState = PLAY_SUCCEEDED
    THEN LET o == IF interrupt.isObject THEN interrupt.offset ELSE offset
             l == IF interrupt.isObject THEN interrupt.loop ELSE loop
             v == IF interrupt.isObject THEN interrupt.volume ELSE volume
             p == IF interrupt.isObject THEN interrupt.pan ELSE pan
             t1 == IF NotNull(o) THEN setPosition(t, o) ELSE t
             t2 == IF NotNull(l) THEN setLoop(t1, l) ELSE t1
             t3 == IF NotNull(v) THEN setVolume(t2, v) ELSE t2
             t4 == IF NotNull(p) THEN setPan(t3, p) ELSE t3
             t5 == IF t4._paused THEN resume(t4) ELSE t4
         IN  Return(t5, "undefined")
    ELSE Return(_playInstance(_cleanUp(t), interrupt, delay, offset, loop, volume, pan),
                "this")

\* DefaultSoundInstance.js
Default_play(t, interrupt, delay, offset, loop, volume, pan) ==
    IF t.playState = PLAY_SUCCEEDED
    THEN LET o == IF interrupt.isObject THEN interrupt.offset ELSE offset
             l == IF interrupt.isObject THEN interrupt.loop ELSE loop
             v == IF interrupt.isObject THEN interrupt.volume ELSE volume
             p == IF interrupt.isObject THEN interrupt.pan ELSE pan
             t1 == IF NotNull(o) THEN Default_setPosition(t, o) ELSE t
             t2 == IF NotNull(l) THEN Default_set_loop(t1, l) ELSE t1
             t3 == IF NotNull(v) THEN Default_setVolume(t2, v) ELSE t2
             t4 == IF NotNull(p) THEN Default_setPan(t3, p) ELSE t3
             t5 == IF t4._paused THEN Default_resume(t4) ELSE t4
         IN  Return(t5, "undefined")
    ELSE Return(_playInstance(Default__cleanUp(t), interrupt, delay, offset, loop,
                              volume, pan), "undefined")


(***************************************************************************)
(* The loaders of src/unnamed/part_001: FlashAudioLoader, with its static  *)
(* _flash and _preloadInstances, and WebAudioLoader.  The Flash class is a *)
(* record F (the statics, the instances, the preload requests the engine   *)
(* has received, and the log of the running operation); a WebAudioLoader   *)
(* is a record w.  Their superclasses, AbstractSoundLoader and XHRRequest, *)
(* are not part of the source files: what they deliver to the listeners of *)
(* a loader follows the loader contract (one terminal outcome per load,    *)
(* delivered once; no progress event for a total of 0).                    *)
(***************************************************************************)
\* FlashAudioLoader instances
MaxLoaders == 2
\* WebAudioLoader instances
MaxWebLoaders == 1
\* decodeAudioData calls of one loader whose callback is outstanding
MaxDecodes == 2

LoaderIds == 1..MaxLoaders
WebLoaderIds == 1..MaxWebLoaders

\* this.flashId = null
NoFlashId == 0

Infinity == 9003

\* loaded / total, held in hundredths (the inputs divide evenly): n/0 is
\* Infinity for n > 0 and 0/0 is NaN
JS_div(a, b) == IF b = 0 THEN (IF a = 0 THEN NaN ELSE Infinity) ELSE (a * 100) \div b

\* <<loaded, total>> as the engine reports them
ProgressInputs == {<<0, 0>>, <<2, 0>>, <<2, 4>>}

\* new Loader(src): flashId is null; no statement of the class assigns the
\* instance a _flash, and progress starts at 0
NewLoader == [_flash |-> "undefined", flashId |-> NoFlashId, progress |-> 0, sent |-> <<>>]

\* what a loader has delivered to its listeners
Sends(F, id, name) == [F EXCEPT !.instance[id].sent = Append(@, name), !.events = Append(@, name)]

\* AbstractSoundLoader.load(src): a load begins
AbstractSoundLoader_load(F, id) ==
    Call([F EXCEPT !.instance[id].sent = <<>>], "AbstractSoundLoader_load")

AbstractSoundLoader__handleProgress(F, id, loaded, total) ==
    LET F1 == Call(F, "AbstractSoundLoader__handleProgress")
    IN  IF total = 0 THEN F1 ELSE [F1 EXCEPT !.events = Append(@, "progress")]

AbstractSoundLoader__handleLoad(F, id) ==
    LET F1 == Call(F, "AbstractSoundLoader__handleLoad")
    IN  IF F1.instance[id].sent # <<>> THEN F1 ELSE Sends(F1, id, "complete")

AbstractSoundLoader__handleError(F, id) ==
    LET F1 == Call(F, "AbstractSoundLoader__handleError")
    IN  IF F1.instance[id].sent # <<>> THEN F1 ELSE Sends(F1, id, "error")

\* flash.preload(src): the engine receives the request and returns its id
preload(F, id) == Call([F EXCEPT !.preloads = Append(@, id)], "preload")

registerPreloadInstance(F, flashId, id) == Call(F, "registerPreloadInstance")

\* load tests the static Loader._flash and then calls preload on this._flash,
\* the instance's own field: reading preload from undefined throws a TypeError
load(F, id) ==
    LET F1 == AbstractSoundLoader_load(F, id)
    IN  IF F1._flash = "null"
        THEN [F1 EXCEPT !._preloadInstances = Append(@, id)]
        ELSE IF F1.instance[id]._flash = "undefined"
        THEN [F1 EXCEPT !.thrown = "TypeError"]
        ELSE LET F2 == preload(F1, id)
                 F3 == [F2 EXCEPT !.instance[id].flashId = id]
             IN  registerPreloadInstance(F3, id, id)

\* ToNumber of an array: 0 for [], and NaN for an array of loaders ("" is 0,
\* "[FlashAudioLoader]" and "[FlashAudioLoader],[FlashAudioLoader]" are no numbers)
ArrayToNumber(a) == IF a = <<>> THEN 0 ELSE NaN

\* for (var i = s._preloadInstances; i--; ) { pop; load }: the loop counter
\* starts as the array itself; i-- makes it a number and the loop runs while
\* that number is neither 0 nor NaN
RECURSIVE setFlash_for(_, _)
setFlash_for(F, i) ==
    IF ~(IsNum(i) /\ i # 0) \/ F.thrown # "none" THEN F
    ELSE LET loader == F._preloadInstances[Len(F._preloadInstances)]
             F1 == [F EXCEPT !._preloadInstances = SubSeq(@, 1, Len(@) - 1)]
         IN  setFlash_for(load(F1, loader), i - 1)

setFlash(F, flash) ==
    LET F1 == [F EXCEPT !._flash = flash]
    IN  setFlash_for(F1, ArrayToNumber(F1._preloadInstances))

handleProgress(F, id, loaded, total) ==
    LET F1 == [F EXCEPT !.instance[id].progress = JS_div(loaded, total)]
    IN  AbstractSoundLoader__handleProgress(F1, id, loaded, total)

handleComplete(F, id) == AbstractSoundLoader__handleLoad(F, id)


\* handleError forwarding to the channel of handleComplete
handleError_AsComplete(F, id) == AbstractSoundLoader__handleLoad(F, id)

handleError(F, id) == AbstractSoundLoader__handleError(F, id)

\* new WebAudioLoader(src), its request sent: nothing transferred, nothing decoded
NewWebAudioLoader == [response |-> "null", _response |-> "null", decoding |-> 0, sent |-> <<>>,
                      events |-> <<>>, calls |-> <<>>]

\* Loader.context.decodeAudioData(data, success, error): one of the two
\* callbacks will be called
decodeAudioData(w) == Call([w EXCEPT !.decoding = @ + 1], "decodeAudioData")

XHRRequest__handleLoad(w) ==
    LET w1 == Call(w, "XHRRequest__handleLoad")
    IN  IF w1.sent # <<>> THEN w1
        ELSE [w1 EXCEPT !.sent = <<"complete">>, !.events = Append(@, "complete")]

\* the _handleError WebAudioLoader inherits
_handleError(w) ==
    LET w1 == Call(w, "_handleError")
    IN  IF w1.sent # <<>> THEN w1
        ELSE [w1 EXCEPT !.sent = <<"error">>, !.events = Append(@, "error")]


\* _handleLoad reporting the load when the transfer ends, as a loader without decoding would
_handleLoad_ReportsTransfer(w) == XHRRequest__handleLoad(decodeAudioData(w))

_handleLoad(w) == decodeAudioData(w)

_handleAudioDecoded(w, decodedAudio) ==
    XHRRequest__handleLoad([w EXCEPT !._response = decodedAudio])

(***************************************************************************)
(* State: the fields of one session, the host and facade state it touches, *)
(* and what the last operation did.                                        *)
(***************************************************************************)
VARIABLES
    impl,                    \* which of the two classes the session is
    definePropertySupported, \* createjs.definePropertySupported
    playState, delayTimeoutId,
    _volume, _pan, _duration, _position, _offset, _loop, _muted, _paused,
    pending,                 \* the host's pending delayed-start timers
    registered,              \* the facade holds the session (between _playInstance and _playFinished)
    op,                      \* the operation that ran last
    ret,                     \* what it returned
    events,                  \* the events it dispatched, in order
    calls,                   \* the hooks, facade and host functions it called, in order
    run,                     \* natural completions since the attempt began
    arg,                     \* the value the last operation was given, where recorded
    _flash,                  \* FlashAudioLoader._flash
    _preloadInstances,       \* FlashAudioLoader._preloadInstances
    loaders,                 \* the FlashAudioLoader instances
    preloads,                \* the loaders whose preload request the Flash engine received, in order
    webLoaders               \* the WebAudioLoader instances

vars == <<impl, definePropertySupported, playState, delayTimeoutId,
          _volume, _pan, _duration, _position, _offset, _loop, _muted, _paused,
          pending, registered, op, ret, events, calls, run, arg,
          _flash, _preloadInstances, loaders, preloads, webLoaders>>

loaderVars == <<_flash, _preloadInstances, loaders, preloads, webLoaders>>

\* The loader classes as part_001 leaves them, and loaders just constructed.
NoLoads ==
    /\ _flash = "null"
    /\ _preloadInstances = <<>>
    /\ loaders = [id \in LoaderIds |-> NewLoader]
    /\ preloads = <<>>
    /\ webLoaders = [id \in WebLoaderIds |-> NewWebAudioLoader]

\* The session as the record the operators work on, with an empty log.
\* isPreloadComplete is what this._owner.isPreloadComplete(this.src) answers
\* when the operation asks: the operations that can ask take it as an input.
This ==
    [impl |-> impl, definePropertySupported |-> definePropertySupported,
     isPreloadComplete |-> FALSE,
     playState |-> playState, delayTimeoutId |-> delayTimeoutId,
     _volume |-> _volume, _pan |-> _pan, _duration |-> _duration,
     _position |-> _position, _offset |-> _offset, _loop |-> _loop,
     _muted |-> _muted, _paused |-> _paused,
     pending |-> pending, registered |-> registered,
     ret |-> "undefined", events |-> <<>>, seen |-> <<>>, calls |-> <<>>,
     arg |-> "none"]

Asked(ready) == [This EXCEPT !.isPreloadComplete = ready]

\* The state an operation leaves.
Becomes(name, t) ==
    /\ op' = name
    /\ impl' = t.impl
    /\ definePropertySupported' = t.definePropertySupported
    /\ playState' = t.playState
    /\ delayTimeoutId' = t.delayTimeoutId
    /\ _volume' = t._volume
    /\ _pan' = t._pan
    /\ _duration' = t._duration
    /\ _position' = t._position
    /\ _offset' = t._offset
    /\ _loop' = t._loop
    /\ _muted' = t._muted
    /\ _paused' = t._paused
    /\ pending' = t.pending
    /\ registered' = t.registered
    /\ ret' = t.ret
    /\ events' = t.events
    /\ calls' = t.calls
    /\ arg' = t.arg
    /\ UNCHANGED loaderVars

\* The constructor, AbstractSoundInstance(src, startTime, duration).
Init ==
    /\ impl \in {"part_000", "Default"}
    /\ definePropertySupported \in BOOLEAN
    /\ playState = PLAY_NULL
    /\ delayTimeoutId = NoTimer
    /\ _volume = 1
    /\ _pan = 0
    /\ _duration \in {OrZero(d) : d \in Durations}
    /\ _position = 0
    /\ _offset = 0
    /\ _loop = 0
    /\ _muted = FALSE
    /\ _paused = FALSE
    /\ pending = {}
    /\ registered = FALSE
    /\ op = "new"
    /\ ret = "undefined"
    /\ events = <<>>
    /\ calls = <<>>
    /\ run = [n |-> undefined, completions |-> 0, loop |-> 0, complete |-> 0]
    /\ arg = "none"
    /\ NoLoads

(***************************************************************************)
(* The record of one attempt's natural completions: the loop count the     *)
(* attempt began with, how many completions followed one another since,    *)
(* and how many "loop" and "complete" events they dispatched.  Any other   *)
(* operation ends the record.                                              *)
(***************************************************************************)
NoRun == [n |-> undefined, completions |-> 0, loop |-> 0, complete |-> 0]

\* after an operation that may have begun an attempt
RunBegun(t) ==
    IF t.playState = PLAY_SUCCEEDED /\ Count(t.events, "succeeded") = 1
    THEN [n |-> t._loop, completions |-> 0, loop |-> 0, complete |-> 0]
    ELSE NoRun

\* after a natural completion
RunCompleted(t) ==
    IF run.n = undefined THEN NoRun
    ELSE [n |-> run.n, completions |-> run.completions + 1,
          loop |-> run.loop + Count(t.events, "loop"),
          complete |-> run.complete + Count(t.events, "complete")]

(***************************************************************************)
(* What a caller passes to play(): positional arguments, or an options     *)
(* object as the first argument.                                           *)
(***************************************************************************)
NoOptions ==
    [isObject |-> FALSE, delay |-> undefined, offset |-> undefined, loop |-> undefined,
     volume |-> undefined, pan |-> undefined]

Options(d, o, l, v, p) ==
    [isObject |-> TRUE, delay |-> d, offset |-> o, loop |-> l, volume |-> v, pan |-> p]

Opt(S) == S \cup {undefined}

\* <<delay, offset, loop, volume, pan>>: no option or one option, and a
\* delayed start with an offset
LifecycleArguments ==
    {<<0, o, undefined, undefined, undefined>> : o \in Opt(Offsets)}
    \cup {<<0, undefined, l, undefined, undefined>> : l \in Loops}
    \cup {<<d, o, undefined, undefined, undefined>> : d \in Delays \ {0}, o \in Offsets}

\* the options given as an object: an offset, and everything at once
BagArguments ==
    {<<0, o, undefined, undefined, undefined>> : o \in Offsets}
    \cup {<<d, 0, l, v, p>> : d \in Delays \ {0}, l \in {MaxLoop}, v \in Volumes, p \in Pans}

MixArguments ==
    {<<0, undefined, undefined, v, undefined>> : v \in Volumes}
    \cup {<<0, undefined, undefined, undefined, p>> : p \in Pans}

PlayRequests ==
    {[interrupt |-> NoOptions, delay |-> a[1], offset |-> a[2], loop |-> a[3],
      volume |-> a[4], pan |-> a[5]] : a \in LifecycleArguments \cup MixArguments}
    \cup
    {[interrupt |-> Options(a[1], a[2], a[3], a[4], a[5]), delay |-> undefined,
      offset |-> undefined, loop |-> undefined, volume |-> undefined, pan |-> undefined]
        : a \in BagArguments}

Delayed(r) == OrDefault(IF r.interrupt.isObject THEN r.interrupt.delay ELSE r.delay, 0) # 0

\* the facade can set the timer a delayed start needs
CanDelay(t, r) == t.playState = PLAY_SUCCEEDED \/ ~Delayed(r) \/ FreeTimerIds(t) # {}

\* the answers isPreloadComplete can give a play request, if it leads to the question
Answers(t, r) == IF t.playState = PLAY_SUCCEEDED \/ Delayed(r) THEN {FALSE} ELSE BOOLEAN

(***************************************************************************)
(* Operations on a part_000 session.                                       *)
(***************************************************************************)
Play ==
    /\ impl = "part_000"
    /\ \E r \in PlayRequests : \E ready \in Answers(This, r) :
        /\ CanDelay(This, r)
        /\ LET t == play(Asked(ready), r.interrupt, r.delay, r.offset, r.loop, r.volume, r.pan)
           IN  Becomes("play", t) /\ run' = IF playState = PLAY_SUCCEEDED THEN NoRun ELSE RunBegun(t)

Pause == impl = "part_000" /\ Becomes("pause", pause(This)) /\ run' = NoRun

Resume == impl = "part_000" /\ Becomes("resume", resume(This)) /\ run' = NoRun

SetPaused ==
    /\ impl = "part_000"
    /\ \E value \in {"true", "false"} : Becomes("setPaused", setPaused(This, value))
    /\ run' = NoRun

Stop == impl = "part_000" /\ Becomes("stop", stop(This)) /\ run' = NoRun

SetPosition ==
    /\ impl = "part_000"
    /\ \E value \in Positions : Becomes("setPosition", setPosition(This, value))
    /\ run' = NoRun

SetDuration ==
    /\ impl = "part_000"
    /\ \E value \in Durations : Becomes("setDuration", setDuration(This, value))
    /\ run' = NoRun

SetLoop ==
    /\ impl = "part_000"
    /\ \E value \in Loops : Becomes("setLoop", setLoop(This, value))
    /\ run' = NoRun

\* the facade preempts a session it holds
Interrupt ==
    /\ impl = "part_000"
    /\ registered
    /\ Becomes("_interrupt", _interrupt(This))
    /\ run' = NoRun

\* the back-end signals the end of the clip of a playing session
HandleSoundComplete ==
    /\ impl = "part_000"
    /\ playState = PLAY_SUCCEEDED
    /\ JS_gt(_loop, -MaxInfinite) \/ ~IsNum(_loop)
    /\ LET t == _handleSoundComplete(This)
       IN  Becomes("_handleSoundComplete", t) /\ run' = RunCompleted(t)

(***************************************************************************)
(* Operations on a DefaultSoundInstance.js session.                        *)
(***************************************************************************)
DefaultPlay ==
    /\ impl = "Default"
    /\ \E r \in PlayRequests : \E ready \in Answers(This, r) :
        /\ CanDelay(This, r)
        /\ LET t == Default_play(Asked(ready), r.interrupt, r.delay, r.offset, r.loop, r.volume, r.pan)
           IN  Becomes("play", t) /\ run' = IF playState = PLAY_SUCCEEDED THEN NoRun ELSE RunBegun(t)

DefaultPause ==
    /\ impl = "Default"
    /\ \E elapsed \in Elapsed : Becomes("pause", Default_pause(This, elapsed))
    /\ run' = NoRun

DefaultResume == impl = "Default" /\ Becomes("resume", Default_resume(This)) /\ run' = NoRun

DefaultStop == impl = "Default" /\ Becomes("stop", Default_stop(This)) /\ run' = NoRun

DefaultSetPosition ==
    /\ impl = "Default"
    /\ \E value \in Positions : Becomes("setPosition", Default_setPosition(This, value))
    /\ run' = NoRun

DefaultSetDuration ==
    /\ impl = "Default"
    /\ \E value \in Durations : Becomes("setDuration", Default_setDuration(This, value))
    /\ run' = NoRun

DefaultSetLoop ==
    /\ impl = "Default"
    /\ \E value \in Loops : Becomes("setLoop", Default_setLoop(This, value))
    /\ run' = NoRun

DefaultInterrupt ==
    /\ impl = "Default"
    /\ registered
    /\ Becomes("_interrupt", Default__interrupt(This))
    /\ run' = NoRun

DefaultHandleSoundComplete ==
    /\ impl = "Default"
    /\ playState = PLAY_SUCCEEDED
    /\ JS_gt(_loop, -MaxInfinite) \/ ~IsNum(_loop)
    /\ LET t == Default__handleSoundComplete(This)
       IN  Becomes("_handleSoundComplete", t) /\ run' = RunCompleted(t)

(***************************************************************************)
(* The host and the facade.                                                *)
(***************************************************************************)
\* A pending delayed-start timer fires: the facade begins the attempt with
\* the offset, loop, volume and pan it holds for it.
DelayTimeout ==
    \E x \in pending, ready \in BOOLEAN :
        LET t0 == [Asked(ready) EXCEPT !.pending = @ \ {x}]
            t == BeginPlaying(t0, x.offset, x.loop, x.volume, x.pan)
        IN  Becomes("_beginPlaying", t) /\ run' = RunBegun(t)

Next ==
    \/ Play \/ Pause \/ Resume \/ SetPaused \/ Stop
    \/ SetPosition \/ SetDuration \/ SetLoop
    \/ Interrupt \/ HandleSoundComplete
    \/ DefaultPlay \/ DefaultPause \/ DefaultResume \/ DefaultStop
    \/ DefaultSetPosition \/ DefaultSetDuration \/ DefaultSetLoop
    \/ DefaultInterrupt \/ DefaultHandleSoundComplete
    \/ DelayTimeout

Spec == Init /\ [][Next]_vars

(***************************************************************************)
(* The two classes behind one interface.                                   *)
(***************************************************************************)
StopOf(t) == IF t.impl = "part_000" THEN stop(t) ELSE Default_stop(t)

ResumeOf(t) == IF t.impl = "part_000" THEN resume(t) ELSE Default_resume(t)

GetPositionOf(t) == IF t.impl = "part_000" THEN getPosition(t) ELSE Default_getPosition(t)

PlayOf(t, r) ==
    IF t.impl = "part_000"
    THEN play(t, r.interrupt, r.delay, r.offset, r.loop, r.volume, r.pan)
    ELSE Default_play(t, r.interrupt, r.delay, r.offset, r.loop, r.volume, r.pan)


InterruptOf(t) == IF t.impl = "part_000" THEN _interrupt(t) ELSE Default__interrupt(t)

PlayFailedOf(t) == IF t.impl = "part_000" THEN _playFailed(t) ELSE Default__playFailed(t)

HandleSoundCompleteOf(t) ==
    IF t.impl = "part_000" THEN _handleSoundComplete(t) ELSE Default__handleSoundComplete(t)

\* the stored playhead: _position in part_000, _offset in DefaultSoundInstance.js
StoredPosition(t) == IF t.impl = "part_000" THEN t._position ELSE t._offset

\* the offsets _beginPlaying is given: negative, zero, within a duration of
\* 1000 (1*1000 > 1000 is false) and beyond it
BeginOffsets == Offsets \cup {1}

\* the timer delayTimeoutId names is pending
TimerPending == \E x \in pending : x.id = delayTimeoutId

(***************************************************************************)
(* The mix of a session: volume, pan, mute and loop count.  A second       *)
(* specification over the same state, in which the facade begins attempts  *)
(* directly and the caller uses the setters, the properties and play() on  *)
(* a running session.                                                      *)
(***************************************************************************)
\* what a caller can pass for a volume and a pan: below, inside and above the
\* range, and a value that is not a number
VolumeInputs == {-1, 0, 1, 2, NaN}
PanInputs == {-2, -1, 0, 1, 2, NaN}

SetVolumeOf(t, value) ==
    IF t.impl = "part_000" THEN setVolume(t, value) ELSE Default_setVolume(t, value)

SetPanOf(t, value) ==
    IF t.impl = "part_000" THEN setPan(t, value) ELSE Default_setPan(t, value)

SetMuteOf(t, value) ==
    IF t.impl = "part_000" THEN setMute(t, value) ELSE Default_setMute(t, value)

SetLoopOf(t, value) ==
    IF t.impl = "part_000" THEN setLoop(t, value) ELSE Default_setLoop(t, value)

\* this.volume = value, this.pan = value, this.loop = value
AssignVolumeOf(t, value) ==
    IF t.impl = "part_000" THEN set_volume(t, value) ELSE Default_set_volume(t, value)

AssignPanOf(t, value) ==
    IF t.impl = "part_000" THEN set_pan(t, value) ELSE Default_set_pan(t, value)

AssignLoopOf(t, value) ==
    IF t.impl = "part_000" THEN set_loop(t, value) ELSE Default_set_loop(t, value)

\* this.muted = value in part_000, this.mute = value in DefaultSoundInstance.js
AssignMutedOf(t, value) ==
    IF t.impl = "part_000" THEN set_muted(t, value) ELSE Default_set_mute(t, value)

MixInit ==
    /\ impl \in {"part_000", "Default"}
    /\ definePropertySupported \in BOOLEAN
    /\ playState = PLAY_NULL
    /\ delayTimeoutId = NoTimer
    /\ _volume = 1
    /\ _pan = 0
    /\ _duration = 0
    /\ _position = 0
    /\ _offset = 0
    /\ _loop = 0
    /\ _muted = FALSE
    /\ _paused = FALSE
    /\ pending = {}
    /\ registered = FALSE
    /\ op = "new"
    /\ ret = "undefined"
    /\ events = <<>>
    /\ calls = <<>>
    /\ run = NoRun
    /\ arg = "none"
    /\ NoLoads

\* a volume and a pan passed together: one of the two is in range
MixPairs ==
    {<<volume, 0>> : volume \in VolumeInputs} \cup {<<1, pan>> : pan \in PanInputs}

\* the same for play(), which can also omit either
MixOptions ==
    {<<volume, undefined>> : volume \in Opt(VolumeInputs)}
    \cup {<<undefined, pan>> : pan \in PanInputs}

\* the result of an operation, with the value it was given
Given(t, value) == [t EXCEPT !.arg = value]

\* the facade begins an attempt
MixBegin ==
    /\ \E ready \in BOOLEAN, mix \in MixPairs :
        Becomes("_beginPlaying", BeginPlaying(Asked(ready), 0, 0, mix[1], mix[2]))
    /\ run' = NoRun

\* play() with a volume or a pan on a running session
MixPlay ==
    /\ playState = PLAY_SUCCEEDED
    /\ \E mix \in MixOptions, bag \in BOOLEAN :
        LET r == IF bag
                 THEN [interrupt |-> Options(undefined, undefined, undefined, mix[1], mix[2]),
                       delay |-> undefined, offset |-> undefined, loop |-> undefined,
                       volume |-> undefined, pan |-> undefined]
                 ELSE [interrupt |-> NoOptions, delay |-> undefined, offset |-> undefined,
                       loop |-> undefined, volume |-> mix[1], pan |-> mix[2]]
        IN  Becomes("play", PlayOf(This, r))
    /\ run' = NoRun

MixSetVolume ==
    /\ \E value \in VolumeInputs : Becomes("setVolume", Given(SetVolumeOf(This, value), value))
    /\ run' = NoRun

MixSetPan ==
    /\ \E value \in PanInputs : Becomes("setPan", Given(SetPanOf(This, value), value))
    /\ run' = NoRun

MixAssignVolume ==
    /\ \E value \in VolumeInputs : Becomes("volume=", Given(AssignVolumeOf(This, value), value))
    /\ run' = NoRun

MixAssignPan ==
    /\ \E value \in PanInputs : Becomes("pan=", Given(AssignPanOf(This, value), value))
    /\ run' = NoRun

MixSetMute ==
    /\ \E value \in Booleans \cup {"undefined"} : Becomes("setMute", Given(SetMuteOf(This, value), value))
    /\ run' = NoRun

\* setMuted and setPaused are methods of part_000 only
MixSetMuted ==
    /\ impl = "part_000"
    /\ \E value \in Booleans \cup NotBooleans : Becomes("setMuted", Given(setMuted(This, value), value))
    /\ run' = NoRun

MixAssignMuted ==
    /\ \E value \in Booleans \cup NotBooleans : Becomes("muted=", Given(AssignMutedOf(This, value), value))
    /\ run' = NoRun

MixSetPaused ==
    /\ impl = "part_000"
    /\ \E value \in Booleans \cup NotBooleans : Becomes("setPaused", Given(setPaused(This, value), value))
    /\ run' = NoRun

MixAssignPaused ==
    /\ impl = "part_000"
    /\ \E value \in Booleans \cup NotBooleans : Becomes("paused=", Given(set_paused(This, value), value))
    /\ run' = NoRun

MixSetLoop ==
    /\ \E value \in Loops : Becomes("setLoop", Given(SetLoopOf(This, value), value))
    /\ run' = NoRun

MixAssignLoop ==
    /\ \E value \in Loops : Becomes("loop=", Given(AssignLoopOf(This, value), value))
    /\ run' = NoRun

MixNext ==
    \/ MixBegin \/ MixPlay
    \/ MixSetVolume \/ MixSetPan \/ MixAssignVolume \/ MixAssignPan
    \/ MixSetMute \/ MixSetMuted \/ MixAssignMuted
    \/ MixSetPaused \/ MixAssignPaused
    \/ MixSetLoop \/ MixAssignLoop

MixSpec == MixInit /\ [][MixNext]_vars

(***************************************************************************)
(* The Flash loaders: callers call load() and setFlash(), the engine calls *)
(* handleProgress, handleComplete and handleError.  A caller calls load()  *)
(* on a loader that is not waiting in the queue.  In the specification of  *)
(* the loaders impl is the loader class the run is about.                  *)
(***************************************************************************)
LoaderInit ==
    /\ impl \in {"FlashAudioLoader", "WebAudioLoader"}
    /\ definePropertySupported = TRUE
    /\ playState = PLAY_NULL
    /\ delayTimeoutId = NoTimer
    /\ _volume = 1
    /\ _pan = 0
    /\ _duration = 0
    /\ _position = 0
    /\ _offset = 0
    /\ _loop = 0
    /\ _muted = FALSE
    /\ _paused = FALSE
    /\ pending = {}
    /\ registered = FALSE
    /\ op = "new"
    /\ ret = "undefined"
    /\ events = <<>>
    /\ calls = <<>>
    /\ run = NoRun
    /\ arg = "none"
    /\ NoLoads

FlashClass ==
    [_flash |-> _flash, _preloadInstances |-> _preloadInstances, instance |-> loaders,
     preloads |-> preloads, events |-> <<>>, calls |-> <<>>, thrown |-> "none"]

sessionVars == <<impl, definePropertySupported, playState, delayTimeoutId,
                 _volume, _pan, _duration, _position, _offset, _loop, _muted, _paused,
                 pending, registered, run>>

\* The state an operation of the Flash loader class leaves.
FlashBecomes(name, given, F) ==
    /\ op' = name
    /\ arg' = given
    /\ _flash' = F._flash
    /\ _preloadInstances' = F._preloadInstances
    /\ loaders' = F.instance
    /\ preloads' = F.preloads
    /\ events' = F.events
    /\ calls' = F.calls
    /\ ret' = (IF F.thrown = "none" THEN "undefined" ELSE F.thrown)
    /\ UNCHANGED <<sessionVars, webLoaders>>

Queued(id) == \E i \in DOMAIN _preloadInstances : _preloadInstances[i] = id

Load ==
    \E id \in LoaderIds :
        /\ impl = "FlashAudioLoader"
        /\ ~Queued(id)
        /\ FlashBecomes("load", id, load(FlashClass, id))

SetFlash ==
    /\ impl = "FlashAudioLoader"
    /\ FlashBecomes("setFlash", "flash", setFlash(FlashClass, "flash"))

HandleProgress ==
    \E id \in LoaderIds, given \in ProgressInputs :
        impl = "FlashAudioLoader" /\ FlashBecomes("handleProgress", <<id, given[1], given[2]>>,
                     handleProgress(FlashClass, id, given[1], given[2]))

HandleComplete ==
    \E id \in LoaderIds : impl = "FlashAudioLoader" /\ FlashBecomes("handleComplete", id, handleComplete(FlashClass, id))

HandleError ==
    \E id \in LoaderIds : impl = "FlashAudioLoader" /\ FlashBecomes("handleError", id, handleError(FlashClass, id))


(***************************************************************************)
(* The Web Audio loaders: the request reports the end of the transfer or   *)
(* an error, and decodeAudioData calls back with the decoded audio or with *)
(* an error, in any order and any number of times.                         *)
(***************************************************************************)
WebThis(id) == [webLoaders[id] EXCEPT !.events = <<>>, !.calls = <<>>]

WebBecomes(name, id, w) ==
    /\ op' = name
    /\ arg' = id
    /\ webLoaders' = [webLoaders EXCEPT ![id] = [w EXCEPT !.events = <<>>, !.calls = <<>>]]
    /\ events' = w.events
    /\ calls' = w.calls
    /\ ret' = "undefined"
    /\ UNCHANGED <<sessionVars, _flash, _preloadInstances, loaders, preloads>>

\* the request has its response (an ArrayBuffer) and calls _handleLoad
TransferComplete ==
    \E id \in WebLoaderIds :
        /\ impl = "WebAudioLoader"
        /\ webLoaders[id].decoding < MaxDecodes
        /\ WebBecomes("_handleLoad", id,
                      _handleLoad([WebThis(id) EXCEPT !.response = "ArrayBuffer"]))

AudioDecoded ==
    \E id \in WebLoaderIds :
        /\ impl = "WebAudioLoader"
        /\ webLoaders[id].decoding > 0
        /\ WebBecomes("_handleAudioDecoded", id,
                      _handleAudioDecoded([WebThis(id) EXCEPT !.decoding = @ - 1], "AudioBuffer"))

DecodeError ==
    \E id \in WebLoaderIds :
        /\ impl = "WebAudioLoader"
        /\ webLoaders[id].decoding > 0
        /\ WebBecomes("decode error", id, _handleError([WebThis(id) EXCEPT !.decoding = @ - 1]))

TransportError ==
    \E id \in WebLoaderIds :
        impl = "WebAudioLoader" /\ WebBecomes("transport error", id, _handleError(WebThis(id)))

LoaderNext ==
    \/ Load \/ SetFlash \/ HandleProgress \/ HandleComplete \/ HandleError
    \/ TransferComplete \/ AudioDecoded \/ DecodeError \/ TransportError

LoaderSpec == LoaderInit /\ [][LoaderNext]_vars

(***************************************************************************)
(* C1.  stop() in any reachable state leaves playState = FINISHED and      *)
(* paused = false; getPosition() called right after returns 0 and          *)
(* resume() called right after returns false.  The first conjunct is       *)
(* about the stop() calls of the run, the second applies stop() to every   *)
(* reachable state.                                                        *)
(***************************************************************************)
C1_StopFinishes ==
    /\ op = "stop" =>
        /\ playState = PLAY_FINISHED
        /\ ~_paused
        /\ GetPositionOf(This).value = 0
        /\ ResumeOf(This).ret = "false"
    /\ LET t == StopOf(This)
       IN  /\ t.playState = PLAY_FINISHED
           /\ ~t._paused
           /\ GetPositionOf(t).value = 0
           /\ ResumeOf(t).ret = "false"

\* stop() has run on a session that had a loop count left and a timer handle
C1_Witness ==
    /\ op = "stop"
    /\ playState = PLAY_FINISHED
    /\ _loop # 0
    /\ delayTimeoutId # NoTimer

(***************************************************************************)
(* C2.  play(...) on a session whose playState is SUCCEEDED calls neither  *)
(* Sound._playInstance nor _cleanUp / Sound._playFinished, and playState   *)
(* is still SUCCEEDED when it returns.                                     *)
(***************************************************************************)
C2_PlayWhileSucceeded ==
    [][(op' = "play" /\ playState = PLAY_SUCCEEDED) =>
         /\ playState' = PLAY_SUCCEEDED
         /\ Count(calls', "_playInstance") = 0
         /\ Count(calls', "_playFinished") = 0]_vars

(***************************************************************************)
(* C3.  An attempt that began with a finite loop count n >= 0: each of the *)
(* first n natural completions dispatches "loop" alone, leaves playState   *)
(* SUCCEEDED and the counter one lower; completion n+1 dispatches          *)
(* "complete" alone and leaves FINISHED with the counter at 0.  (For       *)
(* n = 2 the counter reads 1, 0, 0.)                                       *)
(***************************************************************************)
C3_FiniteLoop ==
    (IsNum(run.n) /\ run.n >= 0) =>
        /\ run.completions <= run.n + 1
        /\ run.completions <= run.n =>
            /\ playState = PLAY_SUCCEEDED
            /\ _loop = run.n - run.completions
            /\ run.loop = run.completions
            /\ run.complete = 0
            /\ run.completions > 0 => events = <<"loop">>
        /\ run.completions = run.n + 1 =>
            /\ playState = PLAY_FINISHED
            /\ _loop = 0
            /\ run.loop = run.n
            /\ run.complete = 1
            /\ events = <<"complete">>

\* loop = 2 and three completions
C3_Witness == run.n = 2 /\ run.completions = 3 /\ run.loop = 2 /\ run.complete = 1

(***************************************************************************)
(* C4.  An attempt that began with a negative loop count: every natural    *)
(* completion dispatches "loop" alone, never "complete", playState stays   *)
(* SUCCEEDED and the counter stays below 0.                                *)
(***************************************************************************)
C4_InfiniteLoop ==
    (IsNum(run.n) /\ run.n < 0) =>
        /\ playState = PLAY_SUCCEEDED
        /\ run.loop = run.completions
        /\ run.complete = 0
        /\ IsNum(_loop) /\ _loop < 0
        /\ run.completions > 0 => events = <<"loop">>

\* loop = -1 and two completions
C4_Witness == run.n = -1 /\ run.completions = 2 /\ op = "_handleSoundComplete"

(***************************************************************************)
(* C5.  _beginPlaying(offset, loop, volume, pan) with offset*1000 >        *)
(* duration on a preloaded source ends FAILED, dispatches "failed" once    *)
(* and does not dispatch "succeeded".  Stated of _beginPlaying applied to  *)
(* every reachable state.                                                  *)
(***************************************************************************)
C5_BeginBeyondDuration ==
    \A offset \in Offsets, loop \in Loops :
        JS_gt(JS_times(offset, 1000), _duration) =>
            LET t == BeginPlaying(Asked(TRUE), offset, loop, 1, 0)
            IN  /\ t.playState = PLAY_FAILED
                /\ Count(t.events, "failed") = 1
                /\ Count(t.events, "succeeded") = 0

(***************************************************************************)
(* C6.  pause() on a session with playState = SUCCEEDED and paused = false *)
(* returns true, leaves paused = true and leaves no delayed-start timer    *)
(* pending.                                                                *)
(***************************************************************************)
C6_PauseWhilePlaying ==
    [][(op' = "pause" /\ playState = PLAY_SUCCEEDED /\ ~_paused) =>
         /\ ret' = "true"
         /\ _paused'
         /\ ~TimerPending']_vars

(***************************************************************************)
(* C7.  pause() on a session whose playState is not SUCCEEDED returns      *)
(* false, and setPaused(true) on it returns without effect: paused and     *)
(* playState are unchanged and _updatePaused is not called.                *)
(***************************************************************************)
C7_PauseWhenNotPlaying ==
    [][(op' \in {"pause", "setPaused"} /\ playState # PLAY_SUCCEEDED) =>
         /\ op' = "pause" => ret' = "false"
         /\ _paused' = _paused
         /\ playState' = playState
         /\ Count(calls', "_updatePaused") = 0]_vars

(***************************************************************************)
(* C8.  _interrupt() while the delayed-start timer is pending: the timer   *)
(* is cancelled and no timer is left to fire, playState is INTERRUPTED,    *)
(* and "interrupted" is the one event dispatched.                          *)
(***************************************************************************)
C8_InterruptCancelsDelay ==
    [][(op' = "_interrupt" /\ TimerPending) =>
         /\ pending' = {}
         /\ playState' = PLAY_INTERRUPTED
         /\ events' = <<"interrupted">>]_vars

\* _interrupt() has cancelled a pending timer
C8_Witness ==
    /\ op = "_interrupt"
    /\ Count(calls, "clearTimeout(pending)") = 1
    /\ playState = PLAY_INTERRUPTED

(***************************************************************************)
(* C9.  In every reachable state paused = true implies playState =         *)
(* SUCCEEDED.                                                              *)
(***************************************************************************)
C9_PausedOnlyWhilePlaying == _paused => playState = PLAY_SUCCEEDED

(***************************************************************************)
(* C10.  resume() on a session that is not paused returns false and        *)
(* changes nothing; on a paused session it returns true and leaves         *)
(* paused = false with playState = SUCCEEDED.                              *)
(***************************************************************************)
C10_Resume ==
    [][op' = "resume" =>
         IF ~_paused
         THEN /\ ret' = "false"
              /\ UNCHANGED <<playState, delayTimeoutId, _volume, _pan, _duration,
                             _position, _offset, _loop, _muted, _paused, pending>>
         ELSE /\ ret' = "true"
              /\ ~_paused'
              /\ playState' = PLAY_SUCCEEDED]_vars

(***************************************************************************)
(* C11.  For every input v and in every reachable state, muted or not,     *)
(* getVolume() after setVolume(v) is v clamped to [0,1]: 0 if v is below   *)
(* 0, 1 if v is above 1, and v otherwise.  (A value that is not a number   *)
(* is neither below 0 nor above 1: it is stored as it is, see C13.)        *)
(***************************************************************************)
C11_SetVolumeClamps ==
    \A v \in VolumeInputs :
        getVolume(SetVolumeOf(This, v)) = IF JS_lt(v, 0) THEN 0 ELSE IF JS_gt(v, 1) THEN 1 ELSE v

\* setVolume(-1) has lowered the volume of a muted, playing session to 0
C11_Witness ==
    /\ op = "setVolume"
    /\ arg = -1
    /\ _muted
    /\ playState = PLAY_SUCCEEDED
    /\ _volume = 0

(***************************************************************************)
(* C12.  For every input p and in every reachable state getPan() after     *)
(* setPan(p) is p clamped to [-1,1]: -1 if p is below -1, 1 if p is above  *)
(* 1, and p otherwise.                                                     *)
(***************************************************************************)
C12_SetPanClamps ==
    \A p \in PanInputs :
        getPan(SetPanOf(This, p)) = IF JS_lt(p, -1) THEN -1 ELSE IF JS_gt(p, 1) THEN 1 ELSE p

\* setPan(-2) has clamped a pan to the left end of the range
C12_Witness ==
    /\ op = "setPan"
    /\ arg = -2
    /\ _pan = -1
    /\ Count(calls, "_updatePan") = 1

(***************************************************************************)
(* C13.  In every reachable state the stored volume is in [0,1] and the    *)
(* stored pan is in [-1,1].                                                *)
(***************************************************************************)
C13_MixInRange ==
    /\ IsNum(_volume) /\ 0 <= _volume /\ _volume <= 1
    /\ IsNum(_pan) /\ -1 <= _pan /\ _pan <= 1

(***************************************************************************)
(* C14.  _beginPlaying on a source that is not preloaded, from any         *)
(* reachable state and with any offset and loop count: playState ends      *)
(* FAILED, "failed" is the one event dispatched (no "succeeded"),          *)
(* Sound._playFinished is called once, and nothing is retried: no call to  *)
(* Sound._playInstance and no timer set.                                   *)
(***************************************************************************)
C14_BeginNotPreloaded ==
    \A offset \in BeginOffsets, loop \in Loops :
        LET t == BeginPlaying(Asked(FALSE), offset, loop, 1, 0)
        IN  /\ t.playState = PLAY_FAILED
            /\ t.events = <<"failed">>
            /\ Count(t.calls, "_playFinished") = 1
            /\ ~t.registered
            /\ Count(t.calls, "_playInstance") = 0
            /\ t.pending \subseteq pending

\* a delayed start has fired on a source that is not preloaded
C14_Witness ==
    /\ op = "_beginPlaying"
    /\ playState = PLAY_FAILED
    /\ events = <<"failed">>
    /\ Count(calls, "_playFinished") = 1

(***************************************************************************)
(* C15.  _beginPlaying(offset, loop, volume, pan) on a preloaded source    *)
(* with offset*1000 <= duration, from any reachable state (paused or       *)
(* not): playState ends SUCCEEDED with paused = false, "succeeded" is the  *)
(* one event dispatched (no "failed"), a negative offset is stored as      *)
(* position 0 and any other offset as given.                               *)
(***************************************************************************)
C15_BeginWithinDuration ==
    \A offset \in BeginOffsets, loop \in Loops :
        ~JS_gt(JS_times(offset, 1000), _duration) =>
            LET t == BeginPlaying(Asked(TRUE), offset, loop, 1, 0)
            IN  /\ t.playState = PLAY_SUCCEEDED
                /\ ~t._paused
                /\ t.events = <<"succeeded">>
                /\ offset < 0 => StoredPosition(t) = 0
                /\ offset >= 0 =>
                     StoredPosition(t) = IF t.impl = "part_000" THEN offset ELSE offset * 1000
                /\ t._loop = loop

\* a delayed start has fired and succeeded
C15_Witness ==
    /\ op = "_beginPlaying"
    /\ playState = PLAY_SUCCEEDED
    /\ ~_paused
    /\ events = <<"succeeded">>
    /\ StoredPosition(This) = 0

(***************************************************************************)
(* C16.  _interrupt() on a session that is playing (after _beginPlaying    *)
(* succeeded and before the natural completion; paused or not, with loops  *)
(* left or not): playState becomes INTERRUPTED, paused = false,            *)
(* Sound._playFinished is called once and the facade no longer holds the   *)
(* session, and "interrupted" is the one event dispatched (nothing on      *)
(* "failed").                                                              *)
(***************************************************************************)
C16_InterruptWhilePlaying ==
    [][(op' = "_interrupt" /\ playState = PLAY_SUCCEEDED) =>
         /\ playState' = PLAY_INTERRUPTED
         /\ ~_paused'
         /\ Count(calls', "_playFinished") = 1
         /\ ~registered'
         /\ events' = <<"interrupted">>]_vars

\* _interrupt() has preempted a session with a loop left and no timer pending
C16_Witness ==
    /\ op = "_interrupt"
    /\ playState = PLAY_INTERRUPTED
    /\ events = <<"interrupted">>
    /\ _loop = 1
    /\ Count(calls, "clearTimeout(pending)") = 0
    /\ Count(calls, "_playFinished") = 1

(***************************************************************************)
(* C17.  At most one delayed-start timer is pending at any time, and it is *)
(* the one delayTimeoutId names.  stop(), play() starting a new attempt,   *)
(* a successful pause() and _interrupt(), when a timer is pending, cancel  *)
(* it: all but play() leave no timer, and play() leaves at most the timer  *)
(* of the new attempt.  _beginPlaying is only ever invoked by a timer that *)
(* was still pending, which is then no longer pending.                     *)
(***************************************************************************)
C17_OnePendingDelay ==
    [][/\ Cardinality(pending') <= 1
       /\ \A x \in pending' : x.id = delayTimeoutId'
       /\ (/\ TimerPending
           /\ \/ op' \in {"stop", "_interrupt"}
              \/ op' = "play" /\ playState # PLAY_SUCCEEDED
              \/ op' = "pause" /\ ret' = "true") =>
            /\ Count(calls', "clearTimeout(pending)") = 1
            /\ op' # "play" => pending' = {}
       /\ op' = "_beginPlaying" => (TimerPending /\ pending' = {})]_vars

\* a delayed play() has replaced a delayed play() whose timer was pending
C17_Witness ==
    /\ op = "play"
    /\ Count(calls, "clearTimeout(pending)") = 1
    /\ pending # {}

(***************************************************************************)
(* C18.  setMuted(true), and muted = true where the property is defined,   *)
(* leave getMuted() true, and setMuted(false) / muted = false leave it     *)
(* false; a call that changes the flag calls _updateVolume once.           *)
(***************************************************************************)
C18_SetMuted ==
    [][(/\ op' = "setMuted" \/ (op' = "muted=" /\ definePropertySupported)
        /\ arg' \in Booleans) =>
         /\ _muted' = (arg' = "true")
         /\ _muted' # _muted => Count(calls', "_updateVolume") = 1]_vars

(***************************************************************************)
(* C19.  setMuted(value) and setPaused(value), and assignment of value to  *)
(* the muted and paused properties, with a value that is neither true nor  *)
(* false: no exception is raised, no event is dispatched, no hook or host  *)
(* function is called, and muted, paused, playState and every other field  *)
(* are as they were.                                                       *)
(***************************************************************************)
C19_NotBooleanIgnored ==
    [][(/\ op' \in {"setMuted", "setPaused", "muted=", "paused="}
        /\ arg' \in NotBooleans) =>
         /\ ret' # "TypeError"
         /\ events' = <<>>
         /\ calls' = <<>>
         /\ UNCHANGED <<_muted, _paused, playState, _volume, _pan, _loop, _position,
                        _offset, _duration, delayTimeoutId, pending>>]_vars

\* setPaused(1) has been ignored by a playing, muted session
C19_Witness ==
    /\ op = "setPaused"
    /\ arg = "1"
    /\ playState = PLAY_SUCCEEDED
    /\ _muted
    /\ ~_paused
    /\ calls = <<>>

(***************************************************************************)
(* C20.  setLoop(value), and loop = value where the property is defined:   *)
(* _removeLooping is called once when the counter goes from nonzero to 0   *)
(* and not otherwise, _addLooping is called once when it goes from 0 to    *)
(* nonzero and not otherwise, and the counter ends equal to value.         *)
(***************************************************************************)
C20_LoopEdges ==
    [][(op' = "setLoop" \/ (op' = "loop=" /\ definePropertySupported)) =>
         /\ Count(calls', "_removeLooping") = (IF _loop # 0 /\ arg' = 0 THEN 1 ELSE 0)
         /\ Count(calls', "_addLooping") = (IF _loop = 0 /\ arg' # 0 THEN 1 ELSE 0)
         /\ _loop' = arg'
         /\ getLoop(This)' = arg']_vars

\* setLoop(0) has ended the looping of a session
C20_Witness ==
    /\ op = "setLoop"
    /\ arg = 0
    /\ calls = <<"_removeLooping">>
    /\ _loop = 0

(***************************************************************************)
(* C21.  setVolume(v) on a muted session stores v clamped and does not     *)
(* call _updateVolume; on a session that is not muted it stores v clamped  *)
(* and calls _updateVolume once.  The step that unmutes a session calls    *)
(* _updateVolume once and leaves the stored volume as it was, so that the  *)
(* hook reads the volume stored last.                                      *)
(***************************************************************************)
C21_VolumeWhileMuted ==
    [][/\ op' = "setVolume" =>
            /\ _volume' = Math_max(0, Math_min(1, arg'))
            /\ _muted' = _muted
            /\ Count(calls', "_updateVolume") = (IF _muted THEN 0 ELSE 1)
       /\ (_muted /\ ~_muted') =>
            /\ _volume' = _volume
            /\ Count(calls', "_updateVolume") = 1]_vars

\* setMute(false) has applied the volume 0 of a playing session
C21_Witness ==
    /\ op = "setMute"
    /\ arg = "false"
    /\ ~_muted
    /\ playState = PLAY_SUCCEEDED
    /\ _volume = 0
    /\ calls = <<"_updateVolume">>

(***************************************************************************)
(* C22.  getPosition(), and the position property where it is defined,     *)
(* calls _calculateCurrentPosition exactly when playState is SUCCEEDED and *)
(* the session is not paused; in every other state it calls no hook and    *)
(* returns the stored position.  Applied to every reachable state.         *)
(***************************************************************************)
C22_GetPosition ==
    LET playing == playState = PLAY_SUCCEEDED /\ ~_paused
        Holds(g) ==
            /\ Count(g.this.calls, "_calculateCurrentPosition") = (IF playing THEN 1 ELSE 0)
            /\ ~playing => (g.this.calls = <<>> /\ g.value = StoredPosition(This))
    IN  /\ Holds(GetPositionOf(This))
        /\ (impl = "part_000" /\ definePropertySupported) => Holds(get_position(This))

(***************************************************************************)
(* C23.  play(...) in a state other than SUCCEEDED starts a new attempt:   *)
(* it first cleans up (clearTimeout, of the pending timer if there is one, *)
(* then Sound._playFinished), then calls Sound._playInstance once with the *)
(* arguments it was given: a delayed request leaves one timer holding the  *)
(* given offset, loop, volume and pan, and a request without delay whose   *)
(* source is preloaded and whose offset is within the duration is begun at *)
(* once, which leaves playState SUCCEEDED and the given loop count.        *)
(* Applied to every reachable state and every request.                     *)
(***************************************************************************)
C23_PlayStartsAttempt ==
    playState # PLAY_SUCCEEDED =>
        \A r \in PlayRequests, ready \in BOOLEAN :
            LET t == PlayOf(Asked(ready), r)
                bag == r.interrupt.isObject
                o == OrDefault(IF bag THEN r.interrupt.offset ELSE r.offset, 0)
                l == OrDefault(IF bag THEN r.interrupt.loop ELSE r.loop, 0)
                v == OrDefault(IF bag THEN r.interrupt.volume ELSE r.volume, 1)
                p == OrDefault(IF bag THEN r.interrupt.pan ELSE r.pan, 0)
            IN  /\ Len(t.calls) >= 3
                /\ t.calls[1] = (IF TimerPending THEN "clearTimeout(pending)" ELSE "clearTimeout")
                /\ t.calls[2] = "_playFinished"
                /\ t.calls[3] = "_playInstance"
                /\ Count(t.calls, "_playInstance") = 1
                /\ Delayed(r) =>
                    /\ t.playState = playState
                    /\ t.pending = {[id |-> t.delayTimeoutId, offset |-> o, loop |-> l,
                                     volume |-> v, pan |-> p]}
                /\ (~Delayed(r) /\ ready /\ ~JS_gt(JS_times(o, 1000), _duration)) =>
                    /\ t.playState = PLAY_SUCCEEDED
                    /\ t._loop = l
                    /\ t.events = <<"succeeded">>
                    /\ t.pending = {}

\* play() with a loop count has replaced a pending delayed start and succeeded
C23_Witness ==
    /\ op = "play"
    /\ playState = PLAY_SUCCEEDED
    /\ Len(calls) >= 3
    /\ calls[1] = "clearTimeout(pending)"
    /\ calls[3] = "_playInstance"
    /\ _loop = MaxLoop
    /\ events = <<"succeeded">>

(***************************************************************************)
(* C29.  play(...) returns the session it was called on, in every state    *)
(* (SUCCEEDED included) and for every form of its arguments.               *)
(***************************************************************************)
C29_PlayReturnsThis ==
    [][op' = "play" => ret' = "this"]_vars

(***************************************************************************)
(* C30.  play() on a SUCCEEDED session with an options object as its first *)
(* argument: the position, loop count, volume and pan it leaves are those  *)
(* the object names (volume and pan clamped by their setters), the         *)
(* positional arguments are ignored, and a field whose option is absent    *)
(* is left as it was even though a positional value was passed for it.     *)
(* Applied to every reachable SUCCEEDED state.                             *)
(***************************************************************************)
C30_OptionsOnRunning ==
    playState = PLAY_SUCCEEDED =>
        \A o \in Opt({0}), l \in Opt(Loops), v \in Opt(Volumes \cup {0}), p \in Opt(Pans \cup {1}) :
            LET r == [interrupt |-> Options(undefined, o, l, v, p), delay |-> 1,
                      offset |-> 2, loop |-> 1, volume |-> 0, pan |-> -1]
                t == PlayOf(This, r)
            IN  /\ StoredPosition(t) = (IF NotNull(o) THEN o ELSE StoredPosition(This))
                /\ t._loop = (IF NotNull(l) THEN l ELSE _loop)
                /\ t._volume = (IF NotNull(v) THEN Math_max(0, Math_min(1, v)) ELSE _volume)
                /\ t._pan = (IF NotNull(p) THEN Math_max(-1, Math_min(1, p)) ELSE _pan)
                /\ t.playState = PLAY_SUCCEEDED
                /\ Count(t.calls, "_playInstance") = 0

(***************************************************************************)
(* C24.  setFlash(flash) replays the load of every loader that was queued  *)
(* while no engine was set: when it returns _preloadInstances is empty and *)
(* the engine has received one preload request from each queued loader.    *)
(***************************************************************************)
C24_SetFlashReplays ==
    [][op' = "setFlash" =>
         /\ _preloadInstances' = <<>>
         /\ LET new == SubSeq(preloads', Len(preloads) + 1, Len(preloads'))
            IN  \A id \in LoaderIds : Count(new, id) = Count(_preloadInstances, id)]_vars

(***************************************************************************)
(* C25.  The queued loads are replayed in the order they were submitted:   *)
(* if loader A was queued before loader B, setFlash makes A's preload      *)
(* request reach the engine before B's.                                    *)
(***************************************************************************)
C25_ReplayInOrder ==
    [][op' = "setFlash" =>
         LET new == SubSeq(preloads', Len(preloads) + 1, Len(preloads'))
         IN  \A i, j \in DOMAIN _preloadInstances :
                i < j => \E a, b \in DOMAIN new :
                            /\ a < b
                            /\ new[a] = _preloadInstances[i]
                            /\ new[b] = _preloadInstances[j]]_vars

(***************************************************************************)
(* C26.  handleProgress(loaded, total) with total = 0 delivers no progress *)
(* event and stores no NaN and no infinite progress; with total > 0 it     *)
(* stores loaded / total and delivers one progress event.                  *)
(***************************************************************************)
C26_ProgressOfZeroTotal ==
    [][op' = "handleProgress" =>
         LET id == arg'[1]
             loaded == arg'[2]
             total == arg'[3]
         IN  IF total = 0
             THEN /\ events' = <<>>
                  /\ loaders'[id].progress \notin {NaN, Infinity}
             ELSE /\ events' = <<"progress">>
                  /\ loaders'[id].progress = (loaded * 100) \div total]_vars

C28_SuccessAfterDecode ==
    [][impl = "WebAudioLoader" =>
         /\ op' = "_handleLoad" =>
              /\ calls' = <<"decodeAudioData">>
              /\ events' = <<>>
              /\ webLoaders'[arg'].sent = webLoaders[arg'].sent
              /\ webLoaders'[arg']._response = webLoaders[arg']._response
         /\ Count(events', "complete") > 0 =>
              /\ op' = "_handleAudioDecoded"
              /\ webLoaders'[arg']._response = "AudioBuffer"
         /\ \A id \in WebLoaderIds :
              webLoaders'[id].sent = <<"complete">> => webLoaders'[id]._response = "AudioBuffer"
         /\ op' \in {"decode error", "transport error"} =>
              /\ calls' = <<"_handleError">>
              /\ Count(events', "complete") = 0
              /\ webLoaders[arg'].sent = <<>> => webLoaders'[arg'].sent = <<"error">>]_vars

\* a decode error after a finished transfer has been delivered as the failure of the load
C28_Witness ==
    /\ op = "decode error"
    /\ webLoaders[arg].response = "ArrayBuffer"
    /\ webLoaders[arg]._response = "null"
    /\ webLoaders[arg].sent = <<"error">>
    /\ events = <<"error">>

(***************************************************************************)
(* C31.  play(...) on a session that is already playing (SUCCEEDED and not *)
(* paused) does nothing, whatever its arguments: position, loop, volume,   *)
(* pan, paused and playState are unchanged, and it calls no hook and no    *)
(* facade function and dispatches no event.                                *)
(***************************************************************************)
C31_PlayWhilePlaying ==
    [][(op' = "play" /\ playState = PLAY_SUCCEEDED /\ ~_paused) =>
         /\ UNCHANGED <<_position, _offset, _loop, _volume, _pan, _paused, playState>>
         /\ calls' = <<>>
         /\ events' = <<>>]_vars

(***************************************************************************)
(* C32.  Whatever operation takes the loop counter from nonzero to zero    *)
(* calls _removeLooping, and whatever operation takes it from zero to      *)
(* nonzero calls _addLooping.                                              *)
(***************************************************************************)
C32_LoopHooks ==
    [][/\ (_loop # 0 /\ _loop' = 0) => Count(calls', "_removeLooping") >= 1
       /\ (_loop = 0 /\ _loop' # 0) => Count(calls', "_addLooping") >= 1]_vars

(***************************************************************************)
(* C33.  In every reachable state the stored duration and the stored       *)
(* playhead position are numbers that are not negative.                    *)
(***************************************************************************)
C33_NotNegative ==
    /\ IsNum(_duration) /\ _duration >= 0
    /\ IsNum(StoredPosition(This)) /\ StoredPosition(This) >= 0

(***************************************************************************)
(* C34.  stop(), _playFailed(), _interrupt() and a natural completion with *)
(* a loop count of 0 each call Sound._playFinished exactly once; a natural *)
(* completion with a loop count other than 0 does not call it and leaves   *)
(* playState as it is.  The operations are applied to every reachable      *)
(* state, and the calls of the run are checked as well.                    *)
(***************************************************************************)
C34_PlayFinishedOnce ==
    LET Finished(t) == Count(t.calls, "_playFinished")
        done == HandleSoundCompleteOf(This)
    IN  /\ Finished(StopOf(This)) = 1 /\ StopOf(This).playState = PLAY_FINISHED
        /\ Finished(PlayFailedOf(This)) = 1 /\ PlayFailedOf(This).playState = PLAY_FAILED
        /\ Finished(InterruptOf(This)) = 1 /\ InterruptOf(This).playState = PLAY_INTERRUPTED
        /\ IF JS_ne0(_loop)
           THEN Finished(done) = 0 /\ done.playState = playState
           ELSE Finished(done) = 1 /\ done.playState = PLAY_FINISHED
        /\ op \in {"stop", "_interrupt"} => Count(calls, "_playFinished") = 1
        /\ op = "_handleSoundComplete" =>
             Count(calls, "_playFinished") = (IF playState = PLAY_FINISHED THEN 1 ELSE 0)

\* the last natural completion of an attempt has released the session
C34_Witness ==
    /\ op = "_handleSoundComplete"
    /\ playState = PLAY_FINISHED
    /\ calls = <<"clearTimeout", "_playFinished">>
    /\ events = <<"complete">>
    /\ ~registered

(***************************************************************************)
(* C35.  An attempt dispatches at most one terminal event: on a session    *)
(* that was stopped, has failed, was interrupted or has completed, a       *)
(* completion callback (_handleSoundComplete) or an _interrupt() that      *)
(* still arrives dispatches no "loop", "complete" or "interrupted" event   *)
(* and leaves playState as it is.                                          *)
(***************************************************************************)
C35_OneTerminalEvent ==
    playState \in {PLAY_FINISHED, PLAY_FAILED, PLAY_INTERRUPTED} =>
        \A t \in {HandleSoundCompleteOf(This), InterruptOf(This)} :
            /\ t.playState = playState
            /\ \A i \in DOMAIN t.events : t.events[i] \notin {"loop", "complete", "interrupted"}

(***************************************************************************)
(* C36.  playState becomes SUCCEEDED only where the facade begins an       *)
(* attempt with _beginPlaying (at once within play(), or when the delay    *)
(* timer fires): no resume(), pause(), setPaused(), setPosition() or other *)
(* mutator takes a session that is not SUCCEEDED to SUCCEEDED.             *)
(***************************************************************************)
C36_SucceededByBeginPlaying ==
    [][(playState # PLAY_SUCCEEDED /\ playState' = PLAY_SUCCEEDED) =>
         /\ op' \in {"play", "_beginPlaying"}
         /\ Count(events', "succeeded") = 1]_vars

(***************************************************************************)
(* C37.  When a terminal event is dispatched, playState already holds the  *)
(* matching value: a listener of "failed" reads PLAY_FAILED, a listener of *)
(* "interrupted" reads PLAY_INTERRUPTED and a listener of "complete" reads *)
(* PLAY_FINISHED, whichever operation dispatches the event (_playFailed,   *)
(* _interrupt, _handleSoundComplete, or play() through _beginPlaying).     *)
(***************************************************************************)
MatchingState(type) ==
    CASE type = "failed" -> PLAY_FAILED
      [] type = "interrupted" -> PLAY_INTERRUPTED
      [] type = "complete" -> PLAY_FINISHED

StateSetFirst(t) ==
    /\ Len(t.seen) = Len(t.events)
    /\ \A i \in DOMAIN t.events :
           t.events[i] \in {"failed", "interrupted", "complete"} =>
               t.seen[i] = MatchingState(t.events[i])

C37_StateBeforeEvent ==
    /\ \A t \in {InterruptOf(This), PlayFailedOf(This), HandleSoundCompleteOf(This)} :
           /\ StateSetFirst(t)
           /\ t.events # <<>>
    /\ \A r \in PlayRequests : \A ready \in BOOLEAN : StateSetFirst(PlayOf(Asked(ready), r))

C37_Witness ==
    /\ op = "_interrupt"
    /\ impl = "part_000"
    /\ events = <<"interrupted">>
    /\ playState = PLAY_INTERRUPTED
    /\ ~_paused

(***************************************************************************)
(* C38.  stop() dispatches no lifecycle event, in any state, and leaves    *)
(* the loop count, the volume, the pan, the mute flag and the duration as  *)
(* they were, whether the session is muted or not.                         *)
(***************************************************************************)
C38_StopFrame ==
    \A m \in BOOLEAN :
        LET t0 == [This EXCEPT !._muted = m]
            t == StopOf(t0)
        IN  /\ t.events = <<>>
            /\ t.playState = PLAY_FINISHED
            /\ <<t._loop, t._volume, t._pan, t._muted, t._duration>>
                   = <<t0._loop, t0._volume, t0._pan, t0._muted, t0._duration>>

C38_Witness ==
    /\ op = "stop"
    /\ events = <<>>
    /\ playState = PLAY_FINISHED
    /\ _loop = -1
    /\ _duration = 1000

(***************************************************************************)
(* C39.  The setters of position, duration and loop count (like those of   *)
(* volume, pan and mute) never change playState or the pause flag and      *)
(* dispatch no event, in any state and for any input.                      *)
(***************************************************************************)
C39_SettersFrame ==
    [][op' \in {"setPosition", "setDuration", "setLoop"} =>
         /\ playState' = playState
         /\ _paused' = _paused
         /\ events' = <<>>]_vars

(***************************************************************************)
(* C40.  load() on a Flash loader when the Flash engine has already been   *)
(* set does not enqueue the loader: it issues exactly one preload request  *)
(* to that engine, stores the id the engine returns in flashId and         *)
(* registers the loader with the active plugin under that id.              *)
(***************************************************************************)
C40_LoadWithEngine ==
    [][(op' = "load" /\ _flash # "null") =>
         /\ _preloadInstances' = _preloadInstances
         /\ preloads' = Append(preloads, arg')
         /\ loaders'[arg'].flashId # NoFlashId
         /\ Count(calls', "preload") = 1
         /\ Count(calls', "registerPreloadInstance") = 1
         /\ ret' # "TypeError"]_vars

====
